---- MODULE Spec2Model ----
(***************************************************************************)
(* Model of the search core of streamlit_app.py: parse_search_terms (the   *)
(* query tokenizer) and apply_search_filters (the filter engine).          *)
(*                                                                         *)
(* A Python str is modelled as a sequence of one-character strings, so     *)
(* that the character scan, split(':', 1), strip() and lower() are         *)
(* computed the way the code computes them.  A DataFrame is a record       *)
(* [columns, rows]: the column names in order and the rows in order, each  *)
(* row a sequence of cells.                                                *)
(***************************************************************************)
EXTENDS Integers, Sequences, FiniteSets, TLC

VARIABLES
    search_input,     \* the argument of the call under way
    pc,               \* position in the code
    i,                \* loop variable `i` of the loop under way
    it,               \* next value the loop's range() iterator hands out
    current_term,     \* parse_search_terms: characters of the token being built
    in_quotes,        \* parse_search_terms: inside a "..." span
    terms,            \* parse_search_terms: the tokens of the scan (line 15)
    final_terms,      \* parse_search_terms: the free-text terms (line 39)
    column_searches,  \* parse_search_terms: the dict, in insertion order
    tokenized,        \* parse_search_terms was entered by this call
    data0,            \* the dataset the caller loaded
    data,             \* apply_search_filters: argument `data`
    filtered_data,    \* apply_search_filters: local `filtered_data`
    result,           \* the value returned by apply_search_filters
    raised            \* the call ended by an exception

vars == <<search_input, pc, i, it, current_term, in_quotes, terms, final_terms,
          column_searches, tokenized, data0, data, filtered_data, result,
          raised>>

parseVars == <<current_term, in_quotes, terms, final_terms, column_searches>>
frameVars == <<data0, data, filtered_data, result, raised>>

(***************************************************************************)
(* Bounds of the model.                                                    *)
(***************************************************************************)
MaxLen == 4       \* longest enumerated query handed to parse_search_terms
MaxQLen == 3      \* longest enumerated query handed to apply_search_filters

(***************************************************************************)
(* Strings.                                                                *)
(***************************************************************************)
Chars(s) == [k \in 1..Len(s) |-> SubSeq(s, k, k)]

QUOTE == "\""
COLON == ":"
SPACE == " "

\* The characters queries are enumerated over: a lowercase and an uppercase
\* letter, the space, another whitespace character, the quote, the colon and
\* two characters that are special in a regular expression.
Alphabet == {"a", "A", " ", "\t", "\"", ":", ".", "("}

RECURSIVE StringsOfLen(_)
StringsOfLen(n) ==
    IF n = 0 THEN {<<>>}
    ELSE {Append(s, c) : s \in StringsOfLen(n - 1), c \in Alphabet}

StringsUpTo(n) == UNION {StringsOfLen(k) : k \in 0..n}

UpperCase == Chars("ABCDEFGHIJKLMNOPQRSTUVWXYZ")
LowerCase == Chars("abcdefghijklmnopqrstuvwxyz")

\* str.lower() on one character.
LowerChar(c) ==
    IF \E k \in 1..26 : UpperCase[k] = c
    THEN LowerCase[CHOOSE k \in 1..26 : UpperCase[k] = c]
    ELSE c

\* str.lower()
Lower(s) == [k \in 1..Len(s) |-> LowerChar(s[k])]

\* The whitespace str.strip() removes, among the characters the model uses
\* (the space and the ASCII control characters tab, newline, return, form feed).
IsSpace(c) == c \in {" ", "\t", "\n", "\r", "\f"}

RECURSIVE LStrip(_)
LStrip(s) ==
    IF s # <<>> /\ IsSpace(Head(s)) THEN LStrip(Tail(s)) ELSE s

RECURSIVE RStrip(_)
RStrip(s) ==
    IF s # <<>> /\ IsSpace(s[Len(s)]) THEN RStrip(SubSeq(s, 1, Len(s) - 1)) ELSE s

\* str.strip()
Strip(s) == RStrip(LStrip(s))

\* `c in s`
HasChar(s, c) == \E k \in 1..Len(s) : s[k] = c

\* index of the first c in s (s contains c)
FirstIndex(s, c) == CHOOSE k \in 1..Len(s) : s[k] = c /\ \A j \in 1..(k - 1) : s[j] # c

\* term.split(':', 1)[0] and term.split(':', 1)[1], for a term that contains ':'
SplitBefore(s) == SubSeq(s, 1, FirstIndex(s, COLON) - 1)
SplitAfter(s) == SubSeq(s, FirstIndex(s, COLON) + 1, Len(s))

(***************************************************************************)
(* parse_search_terms, lines 22-36: the character scan.                    *)
(* st = [terms, current_term, in_quotes]                                   *)
(***************************************************************************)
\* ScanChar with a token ended at an opening quote as well.
ScanCharEndsAtAnyQuote(st, c) ==
    IF c = QUOTE
    THEN IF st.current_term # <<>>
         THEN [terms |-> Append(st.terms, st.current_term),
               current_term |-> <<>>, in_quotes |-> ~st.in_quotes]
         ELSE [st EXCEPT !.in_quotes = ~st.in_quotes]
    ELSE IF c = SPACE /\ ~st.in_quotes
         THEN IF st.current_term # <<>>
              THEN [st EXCEPT !.terms = Append(st.terms, st.current_term),
                              !.current_term = <<>>]
              ELSE st
         ELSE [st EXCEPT !.current_term = Append(st.current_term, c)]

\* ScanChar with the test `not in_quotes` of line 28 left out.
ScanCharSplitsInQuotes(st, c) ==
    IF c = QUOTE
    THEN IF st.in_quotes /\ st.current_term # <<>>
         THEN [terms |-> Append(st.terms, st.current_term),
               current_term |-> <<>>, in_quotes |-> FALSE]
         ELSE [st EXCEPT !.in_quotes = ~st.in_quotes]
    ELSE IF c = SPACE
         THEN IF st.current_term # <<>>
              THEN [st EXCEPT !.terms = Append(st.terms, st.current_term),
                              !.current_term = <<>>]
              ELSE st
         ELSE [st EXCEPT !.current_term = Append(st.current_term, c)]

\* ScanChar with the test `and current_term` of line 25 left out.
ScanCharEmptyPhrase(st, c) ==
    IF c = QUOTE
    THEN IF st.in_quotes
         THEN [terms |-> Append(st.terms, st.current_term),
               current_term |-> <<>>, in_quotes |-> FALSE]
         ELSE [st EXCEPT !.in_quotes = ~st.in_quotes]
    ELSE IF c = SPACE /\ ~st.in_quotes
         THEN IF st.current_term # <<>>
              THEN [st EXCEPT !.terms = Append(st.terms, st.current_term),
                              !.current_term = <<>>]
              ELSE st
         ELSE [st EXCEPT !.current_term = Append(st.current_term, c)]

ScanChar(st, c) ==
    IF c = QUOTE
    THEN IF st.in_quotes /\ st.current_term # <<>>
         THEN [terms |-> Append(st.terms, st.current_term),
               current_term |-> <<>>, in_quotes |-> FALSE]
         ELSE [st EXCEPT !.in_quotes = ~st.in_quotes]
    ELSE IF c = SPACE /\ ~st.in_quotes
         THEN IF st.current_term # <<>>
              THEN [st EXCEPT !.terms = Append(st.terms, st.current_term),
                              !.current_term = <<>>]
              ELSE st
         ELSE [st EXCEPT !.current_term = Append(st.current_term, c)]

\* lines 35-36: the token under way is appended; current_term is not cleared
ScanFlush(st) ==
    IF st.current_term # <<>>
    THEN [st EXCEPT !.terms = Append(st.terms, st.current_term)]
    ELSE st

(***************************************************************************)
(* The dict column_searches: a sequence of [col, value] in insertion       *)
(* order; an assignment to a key already present keeps its place.          *)
(***************************************************************************)
DictHas(d, key) == \E k \in 1..Len(d) : d[k].col = key

\* DictSet that keeps the value a key already has.
DictSetKeepsFirst(d, key, val) ==
    IF DictHas(d, key) THEN d ELSE Append(d, [col |-> key, value |-> val])

DictSet(d, key, val) ==
    IF DictHas(d, key)
    THEN [k \in 1..Len(d) |-> IF d[k].col = key THEN [col |-> key, value |-> val] ELSE d[k]]
    ELSE Append(d, [col |-> key, value |-> val])

DictGet(d, key) == d[CHOOSE k \in 1..Len(d) : d[k].col = key].value

DictKeys(d) == {d[k].col : k \in 1..Len(d)}

(***************************************************************************)
(* parse_search_terms, lines 42-54: the body of the loop over the tokens,  *)
(* for the value idx the range iterator hands out.                         *)
(* st = [final_terms, column_searches, i]; i is the loop variable as the   *)
(* body leaves it.                                                         *)
(***************************************************************************)
TermBody(st, toks, idx) ==
    LET term == toks[idx] IN
    IF HasChar(term, COLON)
    THEN LET col == Lower(Strip(SplitBefore(term)))
             value == SplitAfter(term)
             consume == Strip(value) = <<>> /\ idx < Len(toks)
             value2 == IF consume THEN toks[idx + 1] ELSE value
         IN  [final_terms |-> st.final_terms,
              column_searches |-> DictSet(st.column_searches, col, Strip(value2)),
              i |-> IF consume THEN idx + 1 ELSE idx]
    ELSE [final_terms |-> Append(st.final_terms, term),
          column_searches |-> st.column_searches,
          i |-> idx]

\* `for i in range(len(terms))`: the value the iterator hands out after idx.
\* The iterator counts on its own; the body's `i += 1` (line 51) rebinds the
\* loop variable only.
RangeNext(idx, iAfterBody) == idx + 1

(***************************************************************************)
(* parse_search_terms as one call: the scan folded over the characters,    *)
(* then the loop body folded over the tokens.                              *)
(***************************************************************************)
RECURSIVE ScanFrom(_, _, _)
ScanFrom(st, s, k) ==
    IF k > Len(s) THEN ScanFlush(st) ELSE ScanFrom(ScanChar(st, s[k]), s, k + 1)

RECURSIVE TermsFrom(_, _, _)
TermsFrom(st, toks, idx) ==
    IF idx > Len(toks) THEN st
    ELSE LET r == TermBody(st, toks, idx) IN TermsFrom(r, toks, RangeNext(idx, r.i))

ParseSearchTerms(s) ==
    LET sc == ScanFrom([terms |-> <<>>, current_term |-> <<>>, in_quotes |-> FALSE], s, 1)
        \* the scan loop leaves i at the last character's index
        r == TermsFrom([final_terms |-> <<>>, column_searches |-> <<>>, i |-> Len(s)],
                       sc.terms, 1)
    IN  [terms |-> sc.terms, current_term |-> sc.current_term,
         in_quotes |-> sc.in_quotes, final_terms |-> r.final_terms,
         column_searches |-> r.column_searches, i |-> r.i]

(***************************************************************************)
(* DataFrames.  A cell is a str, an int or NaN.                            *)
(***************************************************************************)
S(s) == [t |-> "str", s |-> Chars(s), n |-> 0]
N(n) == [t |-> "int", s |-> <<>>, n |-> n]
NaN == [t |-> "nan", s |-> <<>>, n |-> 0]

Digits == Chars("0123456789")

RECURSIVE NatStr(_)
NatStr(n) == IF n < 10 THEN <<Digits[n + 1]>> ELSE Append(NatStr(n \div 10), Digits[(n % 10) + 1])

\* astype(str) on one cell
AsStr(cell) ==
    CASE cell.t = "str" -> cell.s
      [] cell.t = "int" -> IF cell.n < 0 THEN <<"-">> \o NatStr(-cell.n) ELSE NatStr(cell.n)
      [] cell.t = "nan" -> Chars("nan")

NoFrame == [columns |-> <<>>, rows |-> <<>>]

(***************************************************************************)
(* Series.str.contains(pat, case=False): pat is a regular expression       *)
(* (regex=True is the default), compiled with re.IGNORECASE and searched   *)
(* in each element.  Of the characters modelled, '.' matches any character *)
(* but a newline, '(' opens a group and, never closed, makes re.compile    *)
(* raise re.error; every other character matches itself.                   *)
(***************************************************************************)
ReCompiles(pat) == ~HasChar(pat, "(")

ReCharMatch(p, c) == IF p = "." THEN c # "\n" ELSE LowerChar(p) = LowerChar(c)

ReSearch(pat, text) ==
    \E off \in 0..(Len(text) - Len(pat)) :
        \A j \in 1..Len(pat) : ReCharMatch(pat[j], text[off + j])

StrContains(cell, pat) == ReSearch(pat, AsStr(cell))

\* frame[mask]: the rows whose mask entry is True, in the frame's order
RECURSIVE KeepFrom(_, _, _)
KeepFrom(rows, mask, k) ==
    IF k > Len(rows) THEN <<>>
    ELSE (IF mask[k] THEN <<rows[k]>> ELSE <<>>) \o KeepFrom(rows, mask, k + 1)

\* frame[mask] with the rows kept in reverse order.
RECURSIVE KeepFromReversed(_, _, _)
KeepFromReversed(rows, mask, k) ==
    IF k > Len(rows) THEN <<>>
    ELSE KeepFromReversed(rows, mask, k + 1) \o (IF mask[k] THEN <<rows[k]>> ELSE <<>>)

BoolIndexReversed(frame, mask) ==
    [frame EXCEPT !.rows = KeepFromReversed(frame.rows, mask, 1)]

\* frame[mask] with the mask read one row too far.
BoolIndexShifted(frame, mask) ==
    [frame EXCEPT !.rows =
        KeepFrom(frame.rows,
                 [k \in 1..Len(frame.rows) |-> k < Len(frame.rows) /\ mask[k + 1]], 1)]

BoolIndex(frame, mask) == [frame EXCEPT !.rows = KeepFrom(frame.rows, mask, 1)]

\* line 68: [c for c in filtered_data.columns if c.lower() == col.lower()],
\* as the positions of the columns
MatchingCols(frame, col) ==
    {k \in 1..Len(frame.columns) : Lower(frame.columns[k]) = Lower(col)}

\* matching_cols[0]
FirstMatchingCol(frame, col) ==
    CHOOSE k \in MatchingCols(frame, col) : \A j \in MatchingCols(frame, col) : k <= j

\* lines 70-72, for a pattern that compiles
ColumnMask(frame, c, value) ==
    [k \in 1..Len(frame.rows) |-> StrContains(frame.rows[k][c], value)]

\* lines 76-78, for a pattern that compiles
TermMask(frame, term) ==
    [k \in 1..Len(frame.rows) |->
        \E c \in 1..Len(frame.columns) : StrContains(frame.rows[k][c], term)]

\* DataFrame.apply on a frame with an empty axis does not call the function
\* on its columns: the pattern is then never compiled.
ApplyCallsFunc(frame) == Len(frame.rows) > 0 /\ Len(frame.columns) > 0

\* lines 68-72: the body of the loop over column_searches.items(), for the
\* entry f; raised when re.compile rejects the value
ColumnBody(frame, f) ==
    IF MatchingCols(frame, f.col) = {}
    THEN [frame |-> frame, raised |-> FALSE]
    ELSE IF ~ReCompiles(f.value)
         THEN [frame |-> frame, raised |-> TRUE]
         ELSE [frame |-> BoolIndex(frame,
                             ColumnMask(frame, FirstMatchingCol(frame, f.col), f.value)),
               raised |-> FALSE]

\* lines 75-79: the body of the loop over terms
WordBody(frame, term) ==
    IF term = <<>>
    THEN [frame |-> frame, raised |-> FALSE]
    ELSE IF ~ApplyCallsFunc(frame)
         THEN [frame |-> [frame EXCEPT !.rows = <<>>], raised |-> FALSE]
         ELSE IF ~ReCompiles(term)
              THEN [frame |-> frame, raised |-> TRUE]
              ELSE [frame |-> BoolIndex(frame, TermMask(frame, term)), raised |-> FALSE]

\* `not search_input.strip()` (line 60)
\* `not search_input` in place of `not search_input.strip()`
IsEmptyInput(s) == s = <<>>

IsBlankInput(s) == Strip(s) = <<>>

(***************************************************************************)
(* apply_search_filters as one call: [raised, result].                     *)
(***************************************************************************)
RECURSIVE ColumnsFrom(_, _, _)
ColumnsFrom(frame, cs, k) ==
    IF k > Len(cs) THEN [frame |-> frame, raised |-> FALSE]
    ELSE LET r == ColumnBody(frame, cs[k])
         IN  IF r.raised THEN r ELSE ColumnsFrom(r.frame, cs, k + 1)

RECURSIVE WordsFrom(_, _, _)
WordsFrom(frame, ts, k) ==
    IF k > Len(ts) THEN [frame |-> frame, raised |-> FALSE]
    ELSE LET r == WordBody(frame, ts[k])
         IN  IF r.raised THEN r ELSE WordsFrom(r.frame, ts, k + 1)

ApplySearchFilters(d, q) ==
    IF IsBlankInput(q) THEN [raised |-> FALSE, result |-> d]
    ELSE LET p == ParseSearchTerms(q)
             c == ColumnsFrom(d, p.column_searches, 1)
             w == IF c.raised THEN c ELSE WordsFrom(c.frame, p.final_terms, 1)
         IN  [raised |-> w.raised, result |-> IF w.raised THEN NoFrame ELSE w.frame]

(***************************************************************************)
(* The inputs.                                                             *)
(***************************************************************************)
\* The queries of the specification's examples.
ExampleQueries ==
    { Chars("rating: PG-13"),
      Chars("director: \"Quentin Tarantino\""),
      Chars("love director:Nolan"),
      Chars("Director:a director:b"),
      Chars("\"\" \"Star Trek: Voyager\" love"),
      Chars("a\"b c\"d\te\" f") }

FilterQueries ==
    { Chars("foo:bar"),
      Chars("tarantino"),
      Chars("rating: PG-13"),
      Chars("love director:Nolan"),
      Chars("aa:a .") }

DEmpty == [columns |-> <<Chars("A")>>, rows |-> <<>>]

DSmall ==
    [columns |-> <<Chars("A"), Chars("Aa")>>,
     rows |-> << <<S("a"), N(10)>>,
                 <<S("b."), S("B")>>,
                 <<NaN, S("")>>,
                 <<S("Aa"), S("a.")>> >>]

\* two columns whose names are equal but for the case, and a repeated row
DDup ==
    [columns |-> <<Chars("A"), Chars("a")>>,
     rows |-> << <<S("a"), S("")>>,
                 <<S(""), S("a")>>,
                 <<S("a"), S("")>> >>]

DCatalog ==
    [columns |-> <<Chars("title"), Chars("type"), Chars("director"),
                   Chars("rating"), Chars("release_year")>>,
     rows |-> << <<S("Pulp Fiction"), S("Movie"), S("Quentin Tarantino"), S("R"), N(1994)>>,
                 <<S("Inception"), S("Movie"), S("Christopher Nolan"), S("PG-13"), N(2010)>>,
                 <<S("Love"), S("TV Show"), NaN, S("TV-MA"), N(2016)>> >>]

Datasets == {DEmpty, DSmall, DDup, DCatalog}

(***************************************************************************)
(* parse_search_terms, step by step.                                       *)
(***************************************************************************)
InitParse ==
    /\ search_input \in StringsUpTo(MaxLen) \cup ExampleQueries
    /\ pc = "scan"
    /\ i = 0
    /\ it = 1
    /\ current_term = <<>>
    /\ in_quotes = FALSE
    /\ terms = <<>>
    /\ final_terms = <<>>
    /\ column_searches = <<>>
    /\ tokenized = TRUE
    /\ data0 = NoFrame
    /\ data = NoFrame
    /\ filtered_data = NoFrame
    /\ result = NoFrame
    /\ raised = FALSE

\* lines 22-33: one iteration of the loop over the characters
ScanStep ==
    /\ pc = "scan"
    /\ it <= Len(search_input)
    /\ LET r == ScanChar([terms |-> terms, current_term |-> current_term,
                          in_quotes |-> in_quotes], search_input[it])
       IN  /\ terms' = r.terms
           /\ current_term' = r.current_term
           /\ in_quotes' = r.in_quotes
    /\ i' = it
    /\ it' = it + 1
    /\ UNCHANGED <<search_input, pc, final_terms, column_searches, tokenized>>
    /\ UNCHANGED frameVars

\* lines 35-39: the loop ends, the token under way is flushed
ScanEnd ==
    /\ pc = "scan"
    /\ it > Len(search_input)
    /\ LET r == ScanFlush([terms |-> terms, current_term |-> current_term,
                           in_quotes |-> in_quotes])
       IN  /\ terms' = r.terms
           /\ current_term' = r.current_term
           /\ in_quotes' = r.in_quotes
    /\ final_terms' = <<>>
    /\ pc' = "terms"
    /\ it' = 1
    /\ UNCHANGED <<search_input, i, column_searches, tokenized>>
    /\ UNCHANGED frameVars

\* lines 41-54: one iteration of the loop over the tokens
TermStep ==
    /\ pc = "terms"
    /\ it <= Len(terms)
    /\ LET r == TermBody([final_terms |-> final_terms,
                          column_searches |-> column_searches, i |-> it], terms, it)
       IN  /\ final_terms' = r.final_terms
           /\ column_searches' = r.column_searches
           /\ i' = r.i
           /\ it' = RangeNext(it, r.i)
    /\ UNCHANGED <<search_input, pc, current_term, in_quotes, terms, tokenized>>
    /\ UNCHANGED frameVars

\* line 56
ParseReturn ==
    /\ pc = "terms"
    /\ it > Len(terms)
    /\ pc' = "parsed"
    /\ UNCHANGED <<search_input, i, it, tokenized>>
    /\ UNCHANGED parseVars
    /\ UNCHANGED frameVars

NextParse == ScanStep \/ ScanEnd \/ TermStep \/ ParseReturn

SpecParse == InitParse /\ [][NextParse]_vars

(***************************************************************************)
(* apply_search_filters.                                                   *)
(***************************************************************************)
Init ==
    /\ search_input \in StringsUpTo(MaxQLen) \cup FilterQueries
    /\ data0 \in Datasets
    /\ data = data0
    /\ pc = "call"
    /\ i = 0
    /\ it = 1
    /\ current_term = <<>>
    /\ in_quotes = FALSE
    /\ terms = <<>>
    /\ final_terms = <<>>
    /\ column_searches = <<>>
    /\ tokenized = FALSE
    /\ filtered_data = NoFrame
    /\ result = NoFrame
    /\ raised = FALSE

\* lines 60-61
ReturnInput ==
    /\ pc = "call"
    /\ IsBlankInput(search_input)
    /\ result' = data
    /\ pc' = "done"
    /\ UNCHANGED <<search_input, i, it, tokenized, data0, data, filtered_data,
                   raised>>
    /\ UNCHANGED parseVars

\* lines 63-64: the call of parse_search_terms, and the copy.  The caller's
\* `terms` is the callee's final_terms.
ParseAndCopy ==
    /\ pc = "call"
    /\ ~IsBlankInput(search_input)
    /\ LET r == ParseSearchTerms(search_input)
       IN  /\ terms' = r.terms
           /\ current_term' = r.current_term
           /\ in_quotes' = r.in_quotes
           /\ final_terms' = r.final_terms
           /\ column_searches' = r.column_searches
           /\ i' = r.i
    /\ tokenized' = TRUE
    /\ filtered_data' = data
    /\ pc' = "columns"
    /\ it' = 1
    /\ UNCHANGED <<search_input, data0, data, result, raised>>

\* lines 67-72: one iteration of the loop over column_searches.items()
ColumnFilter ==
    /\ pc = "columns"
    /\ it <= Len(column_searches)
    /\ LET r == ColumnBody(filtered_data, column_searches[it])
       IN  /\ filtered_data' = r.frame
           /\ raised' = r.raised
           /\ pc' = IF r.raised THEN "done" ELSE pc
    /\ it' = it + 1
    /\ UNCHANGED <<search_input, i, tokenized, data0, data, result>>
    /\ UNCHANGED parseVars

\* the loop over column_searches.items() ends
ColumnsEnd ==
    /\ pc = "columns"
    /\ it > Len(column_searches)
    /\ pc' = "words"
    /\ it' = 1
    /\ UNCHANGED <<search_input, i, tokenized>>
    /\ UNCHANGED parseVars
    /\ UNCHANGED frameVars

\* lines 74-79: one iteration of the loop over terms
TermFilter ==
    /\ pc = "words"
    /\ it <= Len(final_terms)
    /\ LET r == WordBody(filtered_data, final_terms[it])
       IN  /\ filtered_data' = r.frame
           /\ raised' = r.raised
           /\ pc' = IF r.raised THEN "done" ELSE pc
    /\ it' = it + 1
    /\ UNCHANGED <<search_input, i, tokenized, data0, data, result>>
    /\ UNCHANGED parseVars

\* line 81
Return ==
    /\ pc = "words"
    /\ it > Len(final_terms)
    /\ result' = filtered_data
    /\ pc' = "done"
    /\ UNCHANGED <<search_input, i, it, tokenized, data0, data, filtered_data,
                   raised>>
    /\ UNCHANGED parseVars

Next ==
    \/ ReturnInput
    \/ ParseAndCopy
    \/ ColumnFilter
    \/ ColumnsEnd
    \/ TermFilter
    \/ Return

Spec == Init /\ [][Next]_vars

(***************************************************************************)
(* Properties of the tokenizer (checked under SpecParse).                  *)
(***************************************************************************)
Last(s) == s[Len(s)]

QuotesBefore(q, k) == Cardinality({j \in 1..(k - 1) : q[j] = QUOTE})

\* position k of q lies after an odd number of quotes
Inside(q, k) == QuotesBefore(q, k) % 2 = 1

IsSepAt(q, k, seps) == q[k] \in seps /\ ~Inside(q, k)
IsClosingAt(q, k) == q[k] = QUOTE /\ Inside(q, k)
KeptAt(q, k, seps) == q[k] # QUOTE /\ ~IsSepAt(q, k, seps)

KeptPositions(q, seps) == {k \in 1..Len(q) : KeptAt(q, k, seps)}

\* the j-th kept position of q
KeptPos(q, seps, j) ==
    CHOOSE p \in KeptPositions(q, seps) :
        Cardinality({x \in KeptPositions(q, seps) : x < p}) = j - 1

RECURSIVE Flat(_)
Flat(toks) == IF toks = <<>> THEN <<>> ELSE Head(toks) \o Flat(Tail(toks))

RECURSIVE LenUpTo(_, _)
LenUpTo(toks, t) == IF t = 0 THEN 0 ELSE LenUpTo(toks, t - 1) + Len(toks[t])

\* the token that holds the j-th character of Flat(toks)
TokenOf(toks, j) ==
    CHOOSE t \in 1..Len(toks) : LenUpTo(toks, t - 1) < j /\ j <= LenUpTo(toks, t)

\* toks is q split at the characters of seps outside quotes and at closing
\* quotes, the quotes and those separators dropped, no token empty
SplitsOn(q, toks, seps) ==
    LET n == Cardinality(KeptPositions(q, seps)) IN
    /\ \A t \in 1..Len(toks) : toks[t] # <<>>
    /\ Len(Flat(toks)) = n
    /\ \A j \in 1..n : Flat(toks)[j] = q[KeptPos(q, seps, j)]
    /\ \A j \in 1..(n - 1) :
          (TokenOf(toks, j) = TokenOf(toks, j + 1))
          <=> ~\E b \in (KeptPos(q, seps, j) + 1)..(KeptPos(q, seps, j + 1) - 1) :
                  IsSepAt(q, b, seps) \/ IsClosingAt(q, b)

WhitespaceChars == {" ", "\t", "\n", "\r", "\f"}

\* C6 as stated: the scan splits the query at every whitespace character
\* outside quotes (and at closing quotes); whitespace inside quotes is kept,
\* quotes are dropped, an opening quote does not end a token.
C6_SplitsOnWhitespace ==
    pc = "parsed" => SplitsOn(search_input, terms, WhitespaceChars)

\* C6 amended: the scan splits the query at every space character ' ' outside
\* quotes and at closing quotes, and nowhere else: every other character,
\* a tab included, and every character inside quotes stays in its token; the
\* quotes are dropped, no token is empty, an opening quote does not end a token.
C6_SplitsOnSpace ==
    pc = "parsed" => SplitsOn(search_input, terms, {SPACE})

C6_Witness ==
    /\ pc = "parsed"
    /\ search_input = Chars("a\"b c\"d\te\" f")
    /\ terms = <<Chars("ab c"), Chars("d\te f")>>

OddQuotes(q) == QuotesBefore(q, Len(q) + 1) % 2 = 1

LastQuote(q) == CHOOSE k \in 1..Len(q) : q[k] = QUOTE /\ \A j \in (k + 1)..Len(q) : q[j] # QUOTE

\* the characters after the last quote
AfterLastQuote(q) == SubSeq(q, LastQuote(q) + 1, Len(q))

IsSuffix(s, t) == Len(s) <= Len(t) /\ SubSeq(t, Len(t) - Len(s) + 1, Len(t)) = s

\* C7: when the number of quotes is odd, the scan ends normally and the
\* characters after the last quote, spaces included, are all in the last
\* token, unsplit.
C7_UnterminatedQuote ==
    (pc = "parsed" /\ OddQuotes(search_input) /\ AfterLastQuote(search_input) # <<>>)
        => /\ terms # <<>>
           /\ IsSuffix(AfterLastQuote(search_input), Last(terms))

C7_Witness ==
    /\ pc = "parsed"
    /\ search_input = Chars("a\"b c\"d\te\" f")
    /\ AfterLastQuote(search_input) = Chars(" f")
    /\ Last(terms) = Chars("d\te f")

\* The split of a token at its first ':', stated on its own.
C8_Colon(t) == CHOOSE k \in 1..Len(t) : t[k] = COLON /\ ~HasChar(SubSeq(t, 1, k - 1), COLON)
C8_Key(t) == Lower(Strip(SubSeq(t, 1, C8_Colon(t) - 1)))
C8_Value(toks, j) ==
    LET after == Strip(SubSeq(toks[j], C8_Colon(toks[j]) + 1, Len(toks[j]))) IN
    IF after # <<>> THEN after
    ELSE IF j < Len(toks) THEN Strip(toks[j + 1]) ELSE <<>>

C8_ColonTokens(toks) == {j \in 1..Len(toks) : HasChar(toks[j], COLON)}

\* C8: every token with a ':' is split at its first ':'; the key is the text
\* before it, stripped and lowercased, the value the stripped text after it
\* (the stripped next token when that text is blank and a next token exists);
\* the keys of the mapping are unique; a key set by several tokens holds the
\* value of the last of them.
C8_FirstColonLastWins ==
    pc = "parsed" =>
        /\ DictKeys(column_searches) = {C8_Key(terms[j]) : j \in C8_ColonTokens(terms)}
        /\ \A a, b \in 1..Len(column_searches) :
              column_searches[a].col = column_searches[b].col => a = b
        /\ \A j \in C8_ColonTokens(terms) :
              (\A l \in C8_ColonTokens(terms) : C8_Key(terms[l]) = C8_Key(terms[j]) => l <= j)
                  => DictGet(column_searches, C8_Key(terms[j])) = C8_Value(terms, j)

C8_Witness ==
    /\ pc = "parsed"
    /\ search_input = Chars("Director:a director:b")
    /\ column_searches = <<[col |-> Chars("director"), value |-> Chars("b")]>>

\* C8, second case: further ':' stay in the value.
C8_WitnessColonInValue ==
    /\ pc = "parsed"
    /\ search_input = Chars("a:A:")
    /\ column_searches = <<[col |-> Chars("a"), value |-> Chars("A:")]>>

\* C10: every free-text term is non-empty and holds neither a quote nor a
\* colon (and no token at all is empty, so "" yields no token).
C10_TermsWellFormed ==
    /\ \A k \in 1..Len(terms) : terms[k] # <<>>
    /\ \A k \in 1..Len(final_terms) :
          /\ final_terms[k] # <<>>
          /\ ~HasChar(final_terms[k], QUOTE)
          /\ ~HasChar(final_terms[k], COLON)

C10_Witness ==
    /\ pc = "parsed"
    /\ search_input = Chars("\"\" \"Star Trek: Voyager\" love")
    /\ terms = <<Chars("Star Trek: Voyager"), Chars("love")>>
    /\ final_terms = <<Chars("love")>>
    /\ column_searches = <<[col |-> Chars("star trek"), value |-> Chars("Voyager")]>>

\* The loop over the tokens with an explicit cursor that moves past a token
\* used as a value.
RECURSIVE CursorParse(_, _, _)
CursorParse(st, toks, idx) ==
    IF idx > Len(toks) THEN st
    ELSE LET r == TermBody(st, toks, idx) IN CursorParse(r, toks, r.i + 1)

\* C1: a token used as the value of the column filter before it is skipped:
\* it is neither a free-text term nor a column filter of its own.
C1_NextTokenSkipped ==
    pc = "parsed" =>
        LET r == CursorParse([final_terms |-> <<>>, column_searches |-> <<>>, i |-> 0],
                             terms, 1)
        IN  /\ final_terms = r.final_terms
            /\ column_searches = r.column_searches
            /\ search_input = Chars("rating: PG-13") =>
                  /\ final_terms = <<>>
                  /\ column_searches = <<[col |-> Chars("rating"), value |-> Chars("PG-13")]>>
            /\ search_input = Chars("director: \"Quentin Tarantino\"") =>
                  /\ final_terms = <<>>
                  /\ column_searches =
                        <<[col |-> Chars("director"), value |-> Chars("Quentin Tarantino")]>>

(***************************************************************************)
(* Properties of the filter (checked under Spec).                          *)
(***************************************************************************)
\* text contains v, letter case ignored
ContainsIgnoreCase(text, v) ==
    \E off \in 0..(Len(text) - Len(v)) :
        \A j \in 1..Len(v) : LowerChar(text[off + j]) = LowerChar(v[j])

ColumnsNamed(frame, key) ==
    {c \in 1..Len(frame.columns) : Lower(frame.columns[c]) = Lower(key)}

\* row satisfies the column filter f: no column of the frame has the key, or
\* the first one that has it contains the value
SatisfiesFilter(frame, row, f) ==
    \/ ColumnsNamed(frame, f.col) = {}
    \/ \E c \in ColumnsNamed(frame, f.col) :
          /\ \A d \in ColumnsNamed(frame, f.col) : c <= d
          /\ ContainsIgnoreCase(AsStr(row[c]), f.value)

SatisfiesTerm(frame, row, term) ==
    \E c \in 1..Len(frame.columns) : ContainsIgnoreCase(AsStr(row[c]), term)

SatisfiesQuery(frame, row) ==
    /\ \A k \in 1..Len(column_searches) : SatisfiesFilter(frame, row, column_searches[k])
    /\ \A k \in 1..Len(final_terms) : SatisfiesTerm(frame, row, final_terms[k])

\* C2: for a non-blank query the call returns exactly the rows that contain
\* each column filter's value in the first column of that name, and each
\* free-text term in some column, as case-insensitive substrings.
C2_ExactlyTheMatchingRows ==
    (pc = "done" /\ ~raised /\ tokenized) =>
        /\ result.columns = data.columns
        /\ result.rows =
              KeepFrom(data.rows,
                       [k \in 1..Len(data.rows) |-> SatisfiesQuery(data, data.rows[k])], 1)

RECURSIVE IsSubseq(_, _)
IsSubseq(a, b) ==
    IF a = <<>> THEN TRUE
    ELSE IF b = <<>> THEN FALSE
    ELSE IF Head(a) = Head(b) THEN IsSubseq(Tail(a), Tail(b))
    ELSE IsSubseq(a, Tail(b))

\* C3: the frame under way after each narrowing step, and the frame returned,
\* have the columns of the input and rows that are a subsequence of its rows.
C3_Subsequence ==
    /\ pc \in {"columns", "words"} =>
          /\ filtered_data.columns = data.columns
          /\ IsSubseq(filtered_data.rows, data.rows)
    /\ (pc = "done" /\ ~raised) =>
          /\ result.columns = data.columns
          /\ IsSubseq(result.rows, data.rows)
          /\ IsSubseq(result.rows, data0.rows)

C3_Witness ==
    /\ pc = "done"
    /\ ~raised
    /\ data = DSmall
    /\ search_input = Chars("a:a")
    /\ result.rows = <<DSmall.rows[1], DSmall.rows[3], DSmall.rows[4]>>

\* C4: filtering the returned frame again with the same query returns it
\* unchanged (and does not raise), and the call leaves its argument as the
\* caller loaded it.
C4_Idempotent ==
    /\ data = data0
    /\ (pc = "done" /\ ~raised) =>
          ApplySearchFilters(result, search_input) = [raised |-> FALSE, result |-> result]

C4_Witness ==
    /\ pc = "done"
    /\ ~raised
    /\ tokenized
    /\ data0 = DSmall
    /\ Len(result.rows) \in 1..3
    /\ ApplySearchFilters(result, search_input).result = result

\* C5: a query that is empty or all whitespace returns the input frame as it
\* is, and parse_search_terms is not called.
C5_BlankQueryIdentity ==
    (pc = "done" /\ \A k \in 1..Len(search_input) : search_input[k] \in WhitespaceChars)
        => /\ ~raised
           /\ result = data
           /\ ~tokenized

C5_Witness ==
    /\ pc = "done"
    /\ search_input = <<" ", "\t">>
    /\ data = DSmall
    /\ result = DSmall

\* C9: no call ends in an exception.
C9_NeverRaises ==
    pc = "done" => ~raised

====
